---- MODULE Spec2Model ----
(***************************************************************************)
(* Canonical entity resolution (core/canonicalization.py) and the          *)
(* subscription record service (table_processor/subscription_records).     *)
(*                                                                         *)
(* Text values are sequences of one-character strings.  Amounts are        *)
(* integers counting thousandths (1200 is 1.2).  A similarity score is an  *)
(* integer percentage (85 is 0.85).  md5 is modelled as collision free:    *)
(* the digest of a text is the text wrapped in a record.  A date is a day  *)
(* number in a one-element sequence, and the empty sequence is None.       *)
(*                                                                         *)
(* Spec is the record service with its resolve calls, edits, deletions and *)
(* keyed cache invalidation.  SpecResolve is the resolve call alone,       *)
(* SpecChains adds dated inserts and get_subscriptions, SpecStatus applies *)
(* _enrich_subscription, SpecCache runs both forms of the cache            *)
(* invalidation, SpecKey applies generate_normalized_key.  SpecFuzzy runs  *)
(* one resolve call on every small registry, SpecInsert and SpecUsers are  *)
(* the inserts of one user and the resolve calls of two, SpecStats adds    *)
(* get_subscription_stats, SpecBatch is the ingestion of a batch of files  *)
(* and SpecQuota the quota accounting of overlapping upload requests.      *)
(***************************************************************************)
EXTENDS Integers, Sequences, FiniteSets, TLC

\* ------------------------------------------------------------------ bounds
MaxCalls == 2
MaxUpdates == 1
MaxDeletes == 1
MaxFaults == 1

\* --------------------------------------------------------------- constants
CACHE_TTL == 63072000
FUZZY_THRESHOLD == 85

\* ------------------------------------------------------------ text helpers
UpperSeq == <<"A","B","C","D","E","F","G","H","I","J","K","L","M",
              "N","O","P","Q","R","S","T","U","V","W","X","Y","Z">>
LowerSeq == <<"a","b","c","d","e","f","g","h","i","j","k","l","m",
              "n","o","p","q","r","s","t","u","v","w","x","y","z">>
DigitSeq == <<"0","1","2","3","4","5","6","7","8","9">>

Range(s) == { s[i] : i \in DOMAIN s }

LowerChar(ch) ==
    IF \E i \in DOMAIN UpperSeq : UpperSeq[i] = ch
    THEN LowerSeq[CHOOSE i \in DOMAIN UpperSeq : UpperSeq[i] = ch]
    ELSE ch

UpperChar(ch) ==
    IF \E i \in DOMAIN LowerSeq : LowerSeq[i] = ch
    THEN UpperSeq[CHOOSE i \in DOMAIN LowerSeq : LowerSeq[i] = ch]
    ELSE ch

Lower(s) == [ i \in DOMAIN s |-> LowerChar(s[i]) ]
Upper(s) == [ i \in DOMAIN s |-> UpperChar(s[i]) ]

IsSpace(ch) == ch = " "

RECURSIVE LStrip(_)
LStrip(s) == IF s # <<>> /\ IsSpace(Head(s)) THEN LStrip(Tail(s)) ELSE s

RECURSIVE RStrip(_)
RStrip(s) ==
    IF s # <<>> /\ IsSpace(s[Len(s)]) THEN RStrip(SubSeq(s, 1, Len(s) - 1)) ELSE s

Strip(s) == RStrip(LStrip(s))

\* re.sub(r'\([^)]*\)', '', s)
RECURSIVE StripParens(_)
StripParens(s) ==
    IF s = <<>> THEN <<>>
    ELSE IF Head(s) = "(" /\ \E j \in 2..Len(s) : s[j] = ")"
         THEN LET j == CHOOSE k \in 2..Len(s) :
                          /\ s[k] = ")"
                          /\ \A m \in 2..(k - 1) : s[m] # ")"
              IN  StripParens(SubSeq(s, j + 1, Len(s)))
         ELSE <<Head(s)>> \o StripParens(Tail(s))

AlnumLower == Range(LowerSeq) \cup Range(DigitSeq)

IsAlnumLower(ch) == ch \in AlnumLower

\* re.sub(r'[^a-z0-9]', '', s.lower().strip())
Clean(s) == SelectSeq(Strip(Lower(s)), IsAlnumLower)

RECURSIVE NatToText(_)
NatToText(n) ==
    IF n < 10 THEN <<DigitSeq[n + 1]>>
    ELSE NatToText(n \div 10) \o <<DigitSeq[(n % 10) + 1]>>

\* Thousandths rounded to hundredths (cents).
RoundCents(a) == (a + 5) \div 10

\* f"{float(amount):.2f}"
FormatAmount(a) ==
    LET c == RoundCents(a)
    IN  NatToText(c \div 100) \o <<".">> \o
        <<DigitSeq[((c % 100) \div 10) + 1], DigitSeq[(c % 10) + 1]>>

\* "|".join(parts)
RECURSIVE Join(_)
Join(parts) ==
    IF Len(parts) = 0 THEN <<>>
    ELSE IF Len(parts) = 1 THEN parts[1]
    ELSE parts[1] \o <<"|">> \o Join(Tail(parts))

md5(text) == [md5 |-> text]

generate_normalized_key(buyer_name, seller_name, plan_name, currency, amount) ==
    LET buyer  == Clean(StripParens(buyer_name))
        seller == Clean(StripParens(seller_name))
        plan   == Clean(StripParens(plan_name))
        cur    == Strip(Upper(currency))
        amount_str == FormatAmount(amount)
    IN  md5(Join(<<buyer, seller, plan, cur, amount_str>>))


\* ------------------------------------------------------------- encryption
\* A ciphertext is the plaintext behind the marker "Z" (Fernet tokens in
\* base64 start with "Z0FB"); plaintexts of the model never start with "Z".
encrypt_value(value) == IF value = <<>> THEN value ELSE <<"Z">> \o value

decrypt_value(encrypted_value) ==
    IF encrypted_value = <<>> THEN encrypted_value
    ELSE IF Head(encrypted_value) = "Z" THEN Tail(encrypted_value)
    ELSE encrypted_value

\* ------------------------------------------------------------------ inputs
Users == {"u1", "u2"}

F1 == [buyer_name |-> <<"A","c">>, seller_name |-> <<"W">>,
       plan_name |-> <<"E","2">>, currency |-> <<"u","s","d">>, amount |-> 1200]
F2 == [buyer_name |-> <<"A","C"," ","(","H",")">>, seller_name |-> <<"w",".">>,
       plan_name |-> <<"e","2">>, currency |-> <<"U","S","D">>, amount |-> 1200]
F3 == [buyer_name |-> <<"A","d">>, seller_name |-> <<"W">>,
       plan_name |-> <<"E","2">>, currency |-> <<"u","s","d">>, amount |-> 1200]
F4 == [buyer_name |-> <<"B","c">>, seller_name |-> <<"W">>,
       plan_name |-> <<"E","2">>, currency |-> <<"u","s","d">>, amount |-> 1200]

F5 == [buyer_name |-> <<"A","e">>, seller_name |-> <<"W">>,
       plan_name |-> <<"E","2">>, currency |-> <<"u","s","d">>, amount |-> 1200]

Facts == {F1, F2, F3, F4}

KeyOf(f) ==
    generate_normalized_key(f.buyer_name, f.seller_name, f.plan_name,
                            f.currency, f.amount)

KeyA == KeyOf(F1)
KeyB == KeyOf(F3)
KeyC == KeyOf(F4)
KeyD == KeyOf(F5)

\* func.similarity(a, b) of the database (pg_trgm), as a percentage.  The
\* score of two digests is a fact of the similarity index, given as a table.
similarity(a, b) ==
    IF a = b THEN 100
    ELSE IF {a, b} = {KeyA, KeyB} THEN 86
    ELSE IF {a, b} = {KeyA, KeyC} THEN 85
    ELSE IF {a, b} = {KeyB, KeyC} THEN 84
    ELSE IF {a, b} = {KeyB, KeyD} THEN 90
    ELSE 0

\* json.dumps(cache_data, default=str) / json.loads(cached)
json_dumps(data) == [json |-> data]
json_loads(text) == text.json

cache_key_of(user_id, normalized_key) == <<"canonical", user_id, normalized_key>>

\* ------------------------------------------------------------------- state
VARIABLES
    canonical_entities,    \* table canonical_entities: row i has id i
    subscription_records,  \* table subscription_records: a set of rows
    next_ind,              \* autoincrement counter of subscription_records.ind
    redis,                 \* cache: cache key -> stored JSON text
    cache_writer,          \* history: cache key -> call that stored the entry
    call,                  \* insert_subscription / resolve calls
    upd,                   \* the update_subscription call in progress
    nupdates,              \* update_subscription calls started
    ndeletes,              \* delete_subscriptions calls made
    nfaults,               \* injected cache / database errors
    inval_tasks,           \* invalidate_canonical_cache tasks not yet run
    scan,                  \* invalidate_canonical_cache without a key, in progress
    stale,                 \* history: cache entries stored before a canonical edit
    view,                  \* the last response of get_subscriptions
    stats,                 \* the last response of get_subscription_stats
    last_delete,           \* history: the last delete_subscriptions call
    quota,                 \* the usage quota row of one user
    req,                   \* receiptdrop_transfer requests of that user
    upload                 \* an ingestion of a batch of files

vars == <<canonical_entities, subscription_records, next_ind, redis,
          cache_writer, call, upd, nupdates, ndeletes, nfaults, inval_tasks,
          scan, stale, view, stats, last_delete, quota, req, upload>>

Calls == 1..MaxCalls

NoResult == [canonical_id |-> 0]

IdleCall ==
    [pc |-> "idle", user_id |-> "u1", raw_data |-> F1,
     normalized_key |-> KeyA,
     canonical |-> 0, similar |-> NoResult, score |-> 0,
     cache_data |-> NoResult, result |-> NoResult,
     \* history of the call
     path |-> "none", after |-> {}, lookups |-> 0, mutated |-> FALSE,
     read_err |-> FALSE, cache_write_err |-> FALSE, fuzzy_err |-> FALSE,
     reg_write_err |-> FALSE, select_err |-> FALSE, cache_written |-> FALSE,
     canon_seen |-> NoResult, best_sim |-> 0, hit_writer |-> 0]

IdleUpd ==
    [pc |-> "idle", ind |-> 0, user_id |-> "u1", update_fields |-> <<>>,
     canonical_id |-> 0, existing |-> NoResult, canonical_update |-> NoResult,
     old_normalized_key |-> NoResult]

\* a receiptdrop_transfer request: its QuotaManager holds used_month,
\* month_limit and raw_limit as read by check_and_reset
MaxRequests == 2
Requests == 1..MaxRequests

IdleRequests ==
    [r \in Requests |->
        [pc |-> "idle", used_month |-> 0, month_limit |-> 0, raw_limit |-> 0,
         success_count |-> 0,
         \* history: the requests that had ended when this one checked the
         \* quota, and the usage it read then
         after |-> {}, seen_used |-> 0, seen_raw |-> 0]]

\* an ingestion: items are the extraction results of the files, i is the
\* position of upload_to_supabase in its loop, done and failures are the
\* files process_single_file has returned for; the stored sets hold the
\* items whose row is in receipt_items_en / subscription_records
IdleBatch ==
    [pc |-> "idle", path |-> "web", items |-> <<>>, i |-> 1,
     receipt_records |-> <<>>, subscription_records |-> <<>>,
     stored_receipts |-> {}, stored_subscriptions |-> {},
     done |-> {}, failures |-> {}]

IdleScan == [pc |-> "idle", user_id |-> "u1", todo |-> {}, snapshot |-> <<>>]

Init ==
    /\ canonical_entities = <<>>
    /\ subscription_records = {}
    /\ next_ind = 1
    /\ redis = <<>>
    /\ cache_writer = <<>>
    /\ call = [c \in Calls |-> IdleCall]
    /\ upd = IdleUpd
    /\ nupdates = 0
    /\ ndeletes = 0
    /\ nfaults = 0
    /\ inval_tasks = {}
    /\ scan = IdleScan
    /\ stale = {}
    /\ view = NoResult
    /\ stats = NoResult
    /\ last_delete = NoResult
    /\ quota = NoResult
    /\ req = IdleRequests
    /\ upload = IdleBatch

Finished == {"returned", "raised", "stored"}

\* plaintext canonical values of a canonical_entities row
CanonicalValues(row) ==
    [buyer_name  |-> decrypt_value(row.canonical_buyer_name),
     seller_name |-> decrypt_value(row.canonical_seller_name),
     plan_name   |-> decrypt_value(row.canonical_plan_name),
     currency    |-> row.canonical_currency,
     amount      |-> row.canonical_amount]

FieldsOf(r) ==
    [buyer_name |-> r.buyer_name, seller_name |-> r.seller_name,
     plan_name |-> r.plan_name, currency |-> r.currency, amount |-> r.amount]

\* ------------------------------------------------ normalize_subscription_fields
Max(S) == CHOOSE x \in S : \A y \in S : y <= x

SetCall(c, fields) == call' = [call EXCEPT ![c] = fields @@ call[c]]

\* Decimal(str(amount)) stored in a Numeric(10, 2) column
to_numeric_10_2(amount) == RoundCents(amount) * 10

\* after_cache_read without the return on a hit
after_cache_read_no_return(outcome) ==
    CASE outcome = "hit"   -> "exact_select"
      [] outcome = "miss"  -> "exact_select"
      [] outcome = "error" -> "exact_select"

\* after_cache_read without the try/except around the read
after_cache_read_uncaught(outcome) ==
    CASE outcome = "hit"   -> "returned"
      [] outcome = "miss"  -> "exact_select"
      [] outcome = "error" -> "raised"

\* where the control goes after redis_client.get (lines 90-96)
after_cache_read(outcome) ==
    CASE outcome = "hit"   -> "returned"
      [] outcome = "miss"  -> "exact_select"
      [] outcome = "error" -> "exact_select"

\* where the control goes after redis_client.setex (the three try/except)
after_cache_write(outcome) ==
    CASE outcome = "ok"    -> "returned"
      [] outcome = "error" -> "returned"

\* after_registry_write with the exception swallowed
after_registry_write_swallowed(ok) == "cache_write"

\* where the control goes after a statement on canonical_entities: an
\* exception of session.execute / commit is not caught
after_registry_write(ok) == IF ok THEN "cache_write" ELSE "raised"

after_fuzzy_query(ok, found) ==
    IF ~ok THEN "raised" ELSE IF found THEN "fuzzy_update" ELSE "create"

\* exact_matches without the filter on user_id
exact_matches_any_user(rows, user_id, normalized_key) ==
    { i \in DOMAIN rows : /\ rows[i].normalized_key = normalized_key
                          /\ rows[i].is_active }

\* WHERE user_id = :u AND normalized_key = :k AND is_active (lines 101-105)
exact_matches(rows, user_id, normalized_key) ==
    { i \in DOMAIN rows : /\ rows[i].user_id = user_id
                          /\ rows[i].normalized_key = normalized_key
                          /\ rows[i].is_active }

\* fuzzy_candidates with an inclusive threshold
fuzzy_candidates_inclusive(rows, user_id, normalized_key) ==
    { i \in DOMAIN rows :
        /\ rows[i].user_id = user_id
        /\ rows[i].is_active
        /\ similarity(rows[i].normalized_key, normalized_key) >= FUZZY_THRESHOLD }

\* WHERE user_id = :u AND is_active AND similarity(...) > FUZZY_THRESHOLD
fuzzy_candidates(rows, user_id, normalized_key) ==
    { i \in DOMAIN rows :
        /\ rows[i].user_id = user_id
        /\ rows[i].is_active
        /\ similarity(rows[i].normalized_key, normalized_key) > FUZZY_THRESHOLD }

\* fuzzy_first with ORDER BY match_count DESC, similarity DESC
fuzzy_first_by_match_count(rows, user_id, normalized_key) ==
    LET cand == fuzzy_candidates(rows, user_id, normalized_key)
        sim(i) == similarity(rows[i].normalized_key, normalized_key)
    IN  { i \in cand :
            \A j \in cand :
                \/ rows[i].match_count > rows[j].match_count
                \/ rows[i].match_count = rows[j].match_count /\ sim(i) >= sim(j) }

\* ORDER BY similarity DESC, match_count DESC LIMIT 1: the rows that can come
\* first (rows equal in both are in an order the database chooses)
fuzzy_first(rows, user_id, normalized_key) ==
    LET cand == fuzzy_candidates(rows, user_id, normalized_key)
        sim(i) == similarity(rows[i].normalized_key, normalized_key)
    IN  { i \in cand :
            \A j \in cand :
                \/ sim(i) > sim(j)
                \/ sim(i) = sim(j) /\ rows[i].match_count >= rows[j].match_count }

bump_match_count_as_insert(rows, id) ==
    Append(rows, [rows[id] EXCEPT !.match_count = 1])

bump_match_count_redefine(rows, id) ==
    LET c == CHOOSE d \in Calls :
                 /\ call[d].pc \in {"exact_update", "fuzzy_update"}
                 /\ call[d].canonical = id
        raw == call[c].raw_data
    IN  [rows EXCEPT ![id] =
            [@ EXCEPT !.match_count = @ + 1,
                      !.canonical_buyer_name = encrypt_value(raw.buyer_name),
                      !.canonical_seller_name = encrypt_value(raw.seller_name),
                      !.canonical_plan_name = encrypt_value(raw.plan_name),
                      !.canonical_currency = raw.currency,
                      !.normalized_key = call[c].normalized_key]]

\* UPDATE ... SET match_count = match_count + 1 WHERE id = :id
bump_match_count(rows, id) ==
    [rows EXCEPT ![id].match_count = rows[id].match_count + 1]

\* the row of insert(CanonicalEntities).values(...) (lines 211-221)
new_canonical_row(user_id, raw_data, normalized_key) ==
    [user_id |-> user_id,
     canonical_buyer_name  |-> encrypt_value(raw_data.buyer_name),
     canonical_seller_name |-> encrypt_value(raw_data.seller_name),
     canonical_plan_name   |-> encrypt_value(raw_data.plan_name),
     canonical_currency    |-> raw_data.currency,
     canonical_amount      |-> to_numeric_10_2(raw_data.amount),
     normalized_key |-> normalized_key,
     match_count |-> 1,
     is_active |-> TRUE]

\* cache_data of the exact and the create branch (lines 124-128, 229-233)
exact_cache_data(raw_data, canonical_id) ==
    [match_type |-> "exact", canonical_id |-> canonical_id] @@ FieldsOf(raw_data)

\* {**raw_data, 'canonical_id': id} (lines 138, 243)
exact_result(raw_data, canonical_id) ==
    [canonical_id |-> canonical_id] @@ FieldsOf(raw_data)

\* normalized_data of the fuzzy branch (lines 180-187)
fuzzy_normalized_data(similar, id) ==
    [canonical_id |-> id] @@ CanonicalValues(similar)

\* cache_data of the fuzzy branch (lines 190-194)
fuzzy_cache_data(normalized_data, score) ==
    [match_type |-> "fuzzy", score |-> score] @@ normalized_data

Fault == nfaults < MaxFaults

UnchangedTables == UNCHANGED <<subscription_records, next_ind>>
UnchangedUpd ==
    UNCHANGED <<upd, nupdates, ndeletes, inval_tasks, scan, stale, view,
                stats, last_delete, quota, req, upload>>

\* insert_subscription is called: lines 77-88 compute the key.  Calls are
\* numbered in the order they start, and the first caller is named u1.
Start(c, u, f) ==
    /\ call[c].pc = "idle"
    /\ IF c = 1 THEN u = "u1" ELSE call[c - 1].pc # "idle"
    /\ SetCall(c, [pc |-> "cache_read", user_id |-> u, raw_data |-> f,
                   normalized_key |-> KeyOf(f),
                   after |-> { d \in Calls : call[d].pc \in Finished }])
    /\ UNCHANGED <<canonical_entities, redis, cache_writer, nfaults>>
    /\ UnchangedTables /\ UnchangedUpd

\* lines 90-96
CacheReadHit(c) ==
    LET ck == cache_key_of(call[c].user_id, call[c].normalized_key) IN
    /\ call[c].pc = "cache_read"
    /\ ck \in DOMAIN redis
    /\ LET cached == json_loads(redis[ck]) IN
       SetCall(c, [pc |-> after_cache_read("hit"), result |-> cached,
                   path |-> "cache", hit_writer |-> cache_writer[ck],
                   canon_seen |->
                     IF cached.canonical_id \in DOMAIN canonical_entities
                     THEN CanonicalValues(canonical_entities[cached.canonical_id])
                     ELSE NoResult])
    /\ UNCHANGED <<canonical_entities, redis, cache_writer, nfaults>>
    /\ UnchangedTables /\ UnchangedUpd

CacheReadMiss(c) ==
    LET ck == cache_key_of(call[c].user_id, call[c].normalized_key) IN
    /\ call[c].pc = "cache_read"
    /\ ck \notin DOMAIN redis
    /\ SetCall(c, [pc |-> after_cache_read("miss")])
    /\ UNCHANGED <<canonical_entities, redis, cache_writer, nfaults>>
    /\ UnchangedTables /\ UnchangedUpd

CacheReadError(c) ==
    /\ call[c].pc = "cache_read"
    /\ Fault
    /\ nfaults' = nfaults + 1
    /\ SetCall(c, [pc |-> after_cache_read("error"), read_err |-> TRUE])
    /\ UNCHANGED <<canonical_entities, redis, cache_writer>>
    /\ UnchangedTables /\ UnchangedUpd

\* lines 99-109: scalar_one_or_none raises when several rows match
ExactSelect(c) ==
    LET m == exact_matches(canonical_entities, call[c].user_id,
                           call[c].normalized_key) IN
    /\ call[c].pc = "exact_select"
    /\ IF Cardinality(m) > 1
       THEN SetCall(c, [pc |-> "raised", select_err |-> TRUE,
                        lookups |-> call[c].lookups + 1])
       ELSE IF m # {}
       THEN LET id == CHOOSE i \in m : TRUE IN
            SetCall(c, [pc |-> "exact_update", canonical |-> id,
                        lookups |-> call[c].lookups + 1,
                        canon_seen |-> CanonicalValues(canonical_entities[id])])
       ELSE SetCall(c, [pc |-> "fuzzy_select",
                        lookups |-> call[c].lookups + 1])
    /\ UNCHANGED <<canonical_entities, redis, cache_writer, nfaults>>
    /\ UnchangedTables /\ UnchangedUpd

\* lines 113-138
ExactUpdate(c) ==
    /\ call[c].pc = "exact_update"
    /\ \/ /\ canonical_entities' =
               bump_match_count(canonical_entities, call[c].canonical)
          /\ SetCall(c, [pc |-> after_registry_write(TRUE), path |-> "exact",
                         mutated |-> TRUE,
                         cache_data |-> exact_cache_data(call[c].raw_data,
                                                         call[c].canonical),
                         result |-> exact_result(call[c].raw_data,
                                                 call[c].canonical)])
          /\ UNCHANGED nfaults
       \/ /\ Fault
          /\ nfaults' = nfaults + 1
          /\ SetCall(c, [pc |-> after_registry_write(FALSE), path |-> "exact",
                         reg_write_err |-> TRUE])
          /\ UNCHANGED canonical_entities
    /\ UNCHANGED <<redis, cache_writer>>
    /\ UnchangedTables /\ UnchangedUpd

\* lines 143-161
FuzzySelect(c) ==
    LET u == call[c].user_id
        k == call[c].normalized_key
        first == fuzzy_first(canonical_entities, u, k)
        seen == { similarity(canonical_entities[i].normalized_key, k) :
                    i \in { j \in DOMAIN canonical_entities :
                              /\ canonical_entities[j].user_id = u
                              /\ canonical_entities[j].is_active } }
    IN
    /\ call[c].pc = "fuzzy_select"
    /\ \/ /\ first = {}
          /\ SetCall(c, [pc |-> after_fuzzy_query(TRUE, FALSE),
                         lookups |-> call[c].lookups + 1,
                         best_sim |-> IF seen = {} THEN 0 ELSE Max(seen)])
          /\ UNCHANGED nfaults
       \/ /\ \E i \in first :
                SetCall(c, [pc |-> after_fuzzy_query(TRUE, TRUE),
                            lookups |-> call[c].lookups + 1,
                            canonical |-> i,
                            similar |-> canonical_entities[i],
                            score |-> similarity(
                                canonical_entities[i].normalized_key, k),
                            canon_seen |-> CanonicalValues(canonical_entities[i]),
                            best_sim |-> Max(seen)])
          /\ UNCHANGED nfaults
       \/ /\ Fault
          /\ nfaults' = nfaults + 1
          /\ SetCall(c, [pc |-> after_fuzzy_query(FALSE, FALSE),
                         fuzzy_err |-> TRUE])
    /\ UNCHANGED <<canonical_entities, redis, cache_writer>>
    /\ UnchangedTables /\ UnchangedUpd

\* lines 163-204
FuzzyUpdate(c) ==
    /\ call[c].pc = "fuzzy_update"
    /\ \/ /\ canonical_entities' =
               bump_match_count(canonical_entities, call[c].canonical)
          /\ LET nd == fuzzy_normalized_data(call[c].similar, call[c].canonical)
             IN  SetCall(c, [pc |-> after_registry_write(TRUE),
                             path |-> "fuzzy", mutated |-> TRUE,
                             cache_data |-> fuzzy_cache_data(nd, call[c].score),
                             result |-> nd])
          /\ UNCHANGED nfaults
       \/ /\ Fault
          /\ nfaults' = nfaults + 1
          /\ SetCall(c, [pc |-> after_registry_write(FALSE), path |-> "fuzzy",
                         reg_write_err |-> TRUE])
          /\ UNCHANGED canonical_entities
    /\ UNCHANGED <<redis, cache_writer>>
    /\ UnchangedTables /\ UnchangedUpd

\* lines 206-233
Create(c) ==
    /\ call[c].pc = "create"
    /\ \/ /\ canonical_entities' =
               Append(canonical_entities,
                      new_canonical_row(call[c].user_id, call[c].raw_data,
                                        call[c].normalized_key))
          /\ LET id == Len(canonical_entities) + 1 IN
             SetCall(c, [pc |-> after_registry_write(TRUE), path |-> "create",
                         mutated |-> TRUE, canonical |-> id,
                         cache_data |-> exact_cache_data(call[c].raw_data, id),
                         result |-> exact_result(call[c].raw_data, id)])
          /\ UNCHANGED nfaults
       \/ /\ Fault
          /\ nfaults' = nfaults + 1
          /\ SetCall(c, [pc |-> after_registry_write(FALSE), path |-> "create",
                         reg_write_err |-> TRUE])
          /\ UNCHANGED canonical_entities
    /\ UNCHANGED <<redis, cache_writer>>
    /\ UnchangedTables /\ UnchangedUpd

\* redis_client.setex(cache_key, CACHE_TTL, json.dumps(cache_data)) and the
\* return that follows it (lines 129-138, 195-204, 234-243)
CacheWrite(c) ==
    LET ck == cache_key_of(call[c].user_id, call[c].normalized_key) IN
    /\ call[c].pc = "cache_write"
    /\ \/ /\ redis' = (ck :> json_dumps(call[c].cache_data)) @@ redis
          /\ cache_writer' = (ck :> c) @@ cache_writer
          /\ SetCall(c, [pc |-> after_cache_write("ok"), cache_written |-> TRUE])
          /\ UNCHANGED nfaults
       \/ /\ Fault
          /\ nfaults' = nfaults + 1
          /\ SetCall(c, [pc |-> after_cache_write("error"),
                         cache_write_err |-> TRUE])
          /\ UNCHANGED <<redis, cache_writer>>
    /\ UNCHANGED canonical_entities
    /\ UnchangedTables /\ UnchangedUpd

\* ---------------------------------------------------- subscription_records
\* md5 of "|".join([user_id, buyer, seller, plan, currency, amount])
calculate_chain_key_bidx(user_id, data) ==
    md5(<<user_id, data.buyer_name, data.seller_name, data.plan_name,
          data.currency, data.amount>>)

\* a date column holds None or a date, counted in days
NoDate == <<>>
date(d) == <<d>>

\* the row insert_subscription builds from the resolved fields and the dates
\* of insert_fields (lines 461-481)
subscription_row(ind, user_id, normalized, start_date, end_date) ==
    [ind |-> ind, user_id |-> user_id,
     start_date |-> start_date, end_date |-> end_date,
     buyer_name  |-> normalized.buyer_name,
     seller_name |-> encrypt_value(normalized.seller_name),
     plan_name   |-> encrypt_value(normalized.plan_name),
     currency    |-> normalized.currency,
     amount      |-> to_numeric_10_2(normalized.amount),
     note        |-> <<>>,
     canonical_id |-> normalized.canonical_id,
     chain_key_bidx |-> calculate_chain_key_bidx(user_id, normalized)]

\* insert_subscription after the resolve call returned (lines 460-506)
InsertRecord(c, start_date, end_date) ==
    /\ call[c].pc = "returned"
    /\ subscription_records' = subscription_records \cup
           {subscription_row(next_ind, call[c].user_id, call[c].result,
                             start_date, end_date)}
    /\ next_ind' = next_ind + 1
    /\ SetCall(c, [pc |-> "stored"])
    /\ UNCHANGED <<canonical_entities, redis, cache_writer, nfaults>>
    /\ UnchangedUpd

\* ------------------------------------------------------ update_subscription
Get(fields, name, default) ==
    IF name \in DOMAIN fields THEN fields[name] ELSE default

key_fields == {"buyer_name", "seller_name", "plan_name", "currency", "amount"}

Edits ==
    { [buyer_name |-> <<"A","d">>],
      FieldsOf(F1),
      [note |-> <<"n">>] }

\* decrypt_data("subscription_records", record)
decrypt_subscription(r) ==
    [r EXCEPT !.seller_name = decrypt_value(r.seller_name),
              !.plan_name = decrypt_value(r.plan_name),
              !.note = decrypt_value(r.note)]

\* canonical_update of lines 359-375, before encryption: a field that is not
\* edited keeps the value read from the row, which is the stored ciphertext
canonical_update_of(canonical, update_fields) ==
    LET b == Get(update_fields, "buyer_name", canonical.canonical_buyer_name)
        s == Get(update_fields, "seller_name", canonical.canonical_seller_name)
        p == Get(update_fields, "plan_name", canonical.canonical_plan_name)
        cur == Get(update_fields, "currency", canonical.canonical_currency)
        a == Get(update_fields, "amount", canonical.canonical_amount)
    IN  [canonical_buyer_name |-> b, canonical_seller_name |-> s,
         canonical_plan_name |-> p, canonical_currency |-> cur,
         canonical_amount |-> a,
         normalized_key |-> generate_normalized_key(b, s, p, cur, a)]

\* UPDATE canonical_entities SET **encrypt_data(canonical_update) WHERE id
apply_canonical_update(row, cu) ==
    [row EXCEPT !.canonical_buyer_name = encrypt_value(cu.canonical_buyer_name),
                !.canonical_seller_name = encrypt_value(cu.canonical_seller_name),
                !.canonical_plan_name = encrypt_value(cu.canonical_plan_name),
                !.canonical_currency = cu.canonical_currency,
                !.canonical_amount = to_numeric_10_2(cu.canonical_amount),
                !.normalized_key = cu.normalized_key]

\* UPDATE subscription_records SET **encrypt_data(update_fields) WHERE ind, user
apply_record_update(r, update_fields, chain_key_bidx) ==
    [r EXCEPT !.buyer_name = Get(update_fields, "buyer_name", r.buyer_name),
              !.seller_name = IF "seller_name" \in DOMAIN update_fields
                              THEN encrypt_value(update_fields.seller_name)
                              ELSE r.seller_name,
              !.plan_name = IF "plan_name" \in DOMAIN update_fields
                            THEN encrypt_value(update_fields.plan_name)
                            ELSE r.plan_name,
              !.currency = Get(update_fields, "currency", r.currency),
              !.amount = IF "amount" \in DOMAIN update_fields
                         THEN to_numeric_10_2(update_fields.amount)
                         ELSE r.amount,
              !.note = IF "note" \in DOMAIN update_fields
                       THEN encrypt_value(update_fields.note)
                       ELSE r.note,
              !.chain_key_bidx = chain_key_bidx]

\* merged_data of lines 339-341
merged_data_of(existing, update_fields) ==
    LET d == decrypt_subscription(existing) IN
    [buyer_name  |-> Get(update_fields, "buyer_name", d.buyer_name),
     seller_name |-> Get(update_fields, "seller_name", d.seller_name),
     plan_name   |-> Get(update_fields, "plan_name", d.plan_name),
     currency    |-> Get(update_fields, "currency", d.currency),
     amount      |-> Get(update_fields, "amount", d.amount)]

UnchangedResolve ==
    UNCHANGED <<call, redis, cache_writer, nfaults, scan, view,
                stats, quota, req, upload>>

\* phase 1 (lines 313-336): the record is read
UpdPhase1(ind, u, fields) ==
    /\ upd.pc = "idle"
    /\ nupdates < MaxUpdates
    /\ DOMAIN fields # {}
    /\ nupdates' = nupdates + 1
    /\ LET found == { r \in subscription_records :
                        r.ind = ind /\ r.user_id = u } IN
       IF found = {}
       THEN upd' = IdleUpd
       ELSE LET r == CHOOSE x \in found : TRUE IN
            upd' = [IdleUpd EXCEPT !.pc = "phase2", !.ind = ind, !.user_id = u,
                                   !.update_fields = fields,
                                   !.canonical_id = r.canonical_id,
                                   !.existing = r]
    /\ UNCHANGED <<canonical_entities, subscription_records, next_ind,
                   ndeletes, inval_tasks, stale, last_delete>>
    /\ UnchangedResolve

\* phase 2 (lines 339-377): the canonical entity is read, its update prepared
UpdPhase2 ==
    /\ upd.pc = "phase2"
    /\ LET has_key_field_change == DOMAIN upd.update_fields \cap key_fields # {}
       IN
       IF /\ has_key_field_change
          /\ upd.canonical_id # 0
          /\ upd.canonical_id \in DOMAIN canonical_entities
       THEN LET canonical == canonical_entities[upd.canonical_id] IN
            upd' = [upd EXCEPT !.pc = "phase3",
                      !.old_normalized_key = canonical.normalized_key,
                      !.canonical_update =
                          canonical_update_of(canonical, upd.update_fields)]
       ELSE upd' = [upd EXCEPT !.pc = "phase3"]
    /\ UNCHANGED <<canonical_entities, subscription_records, next_ind,
                   nupdates, ndeletes, inval_tasks, stale, last_delete>>
    /\ UnchangedResolve

\* phases 3 and 4 (lines 379-417): both tables are written in one
\* transaction, then the cache invalidation is scheduled as a task
UpdPhase3 ==
    LET has_cu == upd.canonical_update # NoResult
        target == { r \in subscription_records :
                      r.ind = upd.ind /\ r.user_id = upd.user_id }
        chain == calculate_chain_key_bidx(
                     upd.user_id, merged_data_of(upd.existing, upd.update_fields))
    IN
    /\ upd.pc = "phase3"
    /\ canonical_entities' =
         IF has_cu
         THEN [canonical_entities EXCEPT ![upd.canonical_id] =
                  apply_canonical_update(@, upd.canonical_update)]
         ELSE canonical_entities
    /\ subscription_records' =
         (subscription_records \ target) \cup
         { apply_record_update(r, upd.update_fields, chain) : r \in target }
    /\ inval_tasks' =
         IF target # {} /\ has_cu
         THEN inval_tasks \cup {[user_id |-> upd.user_id,
                                 normalized_key |-> upd.old_normalized_key]}
         ELSE inval_tasks
    /\ stale' =
         IF /\ target # {} /\ has_cu
            /\ \E f \in DOMAIN upd.update_fields \cap key_fields :
                  upd.update_fields[f] #
                      CanonicalValues(canonical_entities[upd.canonical_id])[f]
         THEN { <<k, cache_writer[k]>> : k \in
                  { k \in DOMAIN redis :
                      /\ k[2] = upd.user_id
                      /\ json_loads(redis[k]).canonical_id = upd.canonical_id } }
         ELSE stale
    /\ upd' = IdleUpd
    /\ UNCHANGED <<next_ind, nupdates, ndeletes, last_delete>>
    /\ UnchangedResolve

\* invalidate_canonical_cache(user_id, normalized_key) with a key
\* (canonicalization.py lines 254-258, 270-271)
\* redis_client.delete(*keys)
redis_delete(store, keys) == [k \in DOMAIN store \ keys |-> store[k]]

scan_match_any_user(keys, user_id) == { k \in keys : k[1] = "canonical" }

\* the keys that match the pattern "canonical:{user_id}:*"
scan_match(keys, user_id) ==
    { k \in keys : k[1] = "canonical" /\ k[2] = user_id }

invalidate_keys_of_user(store, user_id, normalized_key) ==
    scan_match(DOMAIN store, user_id)

\* the keys the call with a key deletes (lines 254-258)
invalidate_keys(store, user_id, normalized_key) ==
    {cache_key_of(user_id, normalized_key)}

Invalidate(t) ==
    LET keys == invalidate_keys(redis, t.user_id, t.normalized_key) IN
    /\ t \in inval_tasks
    /\ inval_tasks' = inval_tasks \ {t}
    /\ \/ /\ redis' = redis_delete(redis, keys)
          /\ cache_writer' = redis_delete(cache_writer, keys)
          /\ UNCHANGED nfaults
       \/ /\ Fault
          /\ nfaults' = nfaults + 1
          /\ UNCHANGED <<redis, cache_writer>>
    /\ UNCHANGED <<canonical_entities, subscription_records, next_ind, call,
                   upd, nupdates, ndeletes, scan, stale, view,
                   stats, last_delete, quota, req, upload>>

\* invalidate_canonical_cache(user_id) without a key (lines 259-269): the
\* first SCAN call.  todo is the part of the keyspace the cursor has not
\* visited yet; the cursor is 0 when it is empty.
InvalidateAllStart(u) ==
    /\ scan.pc = "idle"
    /\ scan' = [pc |-> "scanning", user_id |-> u, todo |-> DOMAIN redis,
                snapshot |-> redis]
    /\ UNCHANGED <<canonical_entities, subscription_records, next_ind, redis,
                   cache_writer, call, upd, nupdates, ndeletes, nfaults,
                   inval_tasks, stale, view,
                   stats, last_delete, quota, req, upload>>

\* one round of the loop: SCAN returns the matching keys of a batch of the
\* keyspace, they are deleted, and the loop ends when the cursor is 0.  An
\* error of either command ends the call (lines 270-271).
\* after_scan_round without the try/except around the loop
after_scan_round_uncaught(ok, cursor_zero) ==
    IF ~ok THEN "raised" ELSE IF cursor_zero THEN "done" ELSE "scanning"

\* where the control goes after one round (lines 262-271): the loop breaks
\* when the cursor is 0, and an exception is logged and the call returns
after_scan_round(ok, cursor_zero) ==
    IF ~ok THEN "failed" ELSE IF cursor_zero THEN "done" ELSE "scanning"

ScanStep(batch) ==
    LET keys == scan_match(batch, scan.user_id) \cap DOMAIN redis
        todo == scan.todo \ batch
    IN
    /\ scan.pc = "scanning"
    /\ batch \subseteq scan.todo
    /\ batch # {} \/ scan.todo = {}
    /\ \/ /\ redis' = redis_delete(redis, keys)
          /\ cache_writer' = redis_delete(cache_writer, keys)
          /\ scan' = [scan EXCEPT !.todo = todo,
                                  !.pc = after_scan_round(TRUE, todo = {})]
          /\ UNCHANGED nfaults
       \/ /\ Fault
          /\ nfaults' = nfaults + 1
          /\ scan' = [scan EXCEPT !.pc = after_scan_round(FALSE, FALSE)]
          /\ UNCHANGED <<redis, cache_writer>>
    /\ UNCHANGED <<canonical_entities, subscription_records, next_ind, call,
                   upd, nupdates, ndeletes, inval_tasks, stale, view,
                   stats, last_delete, quota, req, upload>>

\* ----------------------------------------------------- delete_subscriptions
\* batch_delete(SubscriptionRecords, inds, key_field='ind'):
\* DELETE FROM subscription_records WHERE ind IN (:inds)
batch_delete(rows, inds) == { r \in rows : r.ind \notin inds }

canonical_after_delete_cascade(rows, records, inds) ==
    LET left == batch_delete(records, inds) IN
    [i \in DOMAIN rows |->
        IF /\ \E r \in records : r.ind \in inds /\ r.canonical_id = i
           /\ \A r \in left : r.canonical_id # i
        THEN [rows[i] EXCEPT !.is_active = FALSE]
        ELSE rows[i]]

\* canonical_entities after delete_subscriptions: the only statement issued
\* is the DELETE on subscription_records, and no foreign key cascades
canonical_after_delete(rows, records, inds) == rows

DeleteSubscriptions(u, inds) ==
    /\ ndeletes < MaxDeletes
    /\ inds # {}
    /\ ndeletes' = ndeletes + 1
    /\ subscription_records' = batch_delete(subscription_records, inds)
    /\ canonical_entities' =
         canonical_after_delete(canonical_entities, subscription_records, inds)
    /\ last_delete' = [user_id |-> u, inds |-> inds]
    /\ UNCHANGED <<next_ind, upd, nupdates, inval_tasks, stale>>
    /\ UnchangedResolve

\* ------------------------------------------------------------ QuotaManager
Min(S) == CHOOSE x \in S : \A y \in S : x <= y

current_month == "2026-11"

UnchangedQuota ==
    UNCHANGED <<canonical_entities, subscription_records, next_ind, redis,
                cache_writer, call, upd, nupdates, ndeletes, nfaults,
                inval_tasks, scan, stale, view, stats, last_delete, upload>>

\* check_and_reset of request r (lines 25-84): the row is read, used_month
\* is reset when the month changed, and the request is refused when the
\* usage has reached month_limit + raw_limit
CheckAndReset(r) ==
    LET quota_data == quota
        needs_reset == current_month # quota_data.last_reset_month
        used_month == IF needs_reset THEN 0 ELSE quota_data.used_month
        allowed == used_month < quota_data.month_limit + quota_data.raw_limit
    IN
    /\ req[r].pc = "idle"
    /\ quota # NoResult
    /\ quota' = IF needs_reset
                THEN [quota EXCEPT !.used_month = 0,
                                   !.last_reset_month = current_month]
                ELSE quota
    /\ req' = [req EXCEPT ![r] =
                 [@ EXCEPT !.pc = IF allowed THEN "uploading" ELSE "raised",
                           !.used_month = used_month,
                           !.month_limit = quota_data.month_limit,
                           !.raw_limit = quota_data.raw_limit,
                           !.after = { q \in Requests : req[q].pc = "done" },
                           !.seen_used = used_month,
                           !.seen_raw = quota_data.raw_limit]]
    /\ UnchangedQuota

\* upload_to_supabase returns success_count, and receiptdrop_transfer calls
\* increment_usage when it is not 0 (routers.py lines 22-25)
UploadReturns(r, success_count) ==
    /\ req[r].pc = "uploading"
    /\ req' = [req EXCEPT ![r] =
                 [@ EXCEPT !.success_count = success_count,
                           !.pc = IF success_count # 0 THEN "incrementing"
                                                       ELSE "done"]]
    /\ UNCHANGED quota
    /\ UnchangedQuota

\* upload_to_supabase raises: the request answers 500 and records no usage
\* (routers.py lines 30-32)
UploadRaises(r) ==
    /\ req[r].pc = "uploading"
    /\ req' = [req EXCEPT ![r].pc = "raised"]
    /\ UNCHANGED quota
    /\ UnchangedQuota

\* the row after increment_usage (lines 93-102): both columns are computed
\* from the values check_and_reset read
increment_usage(row, used_month, raw_limit, success_count) ==
    [row EXCEPT
       !.raw_limit = Max({raw_limit - success_count, 0}),
       !.used_month = used_month - Min({raw_limit - success_count, 0})]

IncrementUsage(r) ==
    /\ req[r].pc = "incrementing"
    /\ quota' = increment_usage(quota, req[r].used_month, req[r].raw_limit,
                                req[r].success_count)
    /\ req' = [req EXCEPT ![r] =
                 [@ EXCEPT !.pc = "done",
                           !.used_month = quota'.used_month,
                           !.raw_limit = quota'.raw_limit]]
    /\ UnchangedQuota

\* ------------------------------------------------------- ingestion of files
\* sub_preparer.build_subscript_data() called without await: the value is a
\* coroutine object, and normalize_subscription_fields does not run
build_subscript_data_call(i) == [coroutine |-> i]

isinstance_dict(x) == "coroutine" \notin DOMAIN x

\* encrypt_data(table, data_dict): a value that is not a dict is returned
\* as it is (encryption.py lines 49-70)
encrypt_data_row(data_dict) ==
    IF isinstance_dict(data_dict) THEN [data_dict EXCEPT !.encrypted = TRUE]
    ELSE data_dict

\* the insert of a row succeeds when the row is a dict; a coroutine object
\* is neither serializable nor a mapping of columns
insert_ok(row) == isinstance_dict(row)

\* where upload_to_supabase goes after an exception in the loop (lines
\* 45-66 hold no try; lines 100-102 log and raise)
web_after_item_error(i, n) == "raised"

UnchangedUpload ==
    UNCHANGED <<canonical_entities, subscription_records, next_ind, redis,
                cache_writer, call, upd, nupdates, ndeletes, nfaults,
                inval_tasks, scan, stale, view, stats, last_delete, quota,
                req>>

\* an ingestion starts: the web upload or the email with its files
UploadStart(path, items) ==
    /\ upload.pc = "idle"
    /\ upload' = [IdleBatch EXCEPT !.pc = IF path = "web" THEN "building"
                                                          ELSE "files",
                                   !.path = path, !.items = items]
    /\ UnchangedUpload

\* one round of the loop of upload_to_supabase (lines 45-66)
WebBuild ==
    LET i == upload.i
        n == Len(upload.items)
        result == upload.items[i]
        receipt_row == [item |-> i, encrypted |-> FALSE]
        receipts == Append(upload.receipt_records, encrypt_data_row(receipt_row))
        sub_row == build_subscript_data_call(i)
    IN
    /\ upload.pc = "building"
    /\ IF ~result.fields_ok
       THEN \* ReceiptDataPreparer.parse_fields raises ValueError
            upload' = [upload EXCEPT !.pc = web_after_item_error(i, n),
                                     !.i = i + 1,
                                     !.failures = @ \cup {i}]
       ELSE IF ~result.is_subscription
       THEN upload' = [upload EXCEPT !.receipt_records = receipts,
                                     !.i = i + 1,
                                     !.pc = IF i < n THEN "building" ELSE "insert"]
       ELSE IF ~result.subscription_fields_ok
       THEN \* SubscriptDataPreparer.__init__: clean_and_parse_json raises
            upload' = [upload EXCEPT !.receipt_records = receipts,
                                     !.pc = web_after_item_error(i, n),
                                     !.i = i + 1,
                                     !.failures = @ \cup {i}]
       ELSE upload' = [upload EXCEPT
                          !.receipt_records = receipts,
                          !.subscription_records =
                              Append(@, encrypt_data_row(sub_row)),
                          !.i = i + 1,
                          !.pc = IF i < n THEN "building" ELSE "insert"]
    /\ UnchangedUpload

\* the two batch inserts after the loop (lines 69-75) and the return
WebInsert ==
    LET receipts == upload.receipt_records
        subs == upload.subscription_records
        subs_ok == \A k \in DOMAIN subs : insert_ok(subs[k])
    IN
    /\ upload.pc = "insert"
    /\ upload' = [upload EXCEPT
          !.stored_receipts = { receipts[k].item : k \in DOMAIN receipts },
          !.stored_subscriptions =
              IF subs_ok THEN { subs[k].item : k \in DOMAIN subs } ELSE {},
          !.pc = IF subs_ok THEN "returned" ELSE "raised"]
    /\ UnchangedUpload

\* process_single_file for file j of an email (lines 146-215); the files
\* run as concurrent tasks, gathered with return_exceptions
ProcessSingleFile(j) ==
    LET result == upload.items[j]
        subscript_row == build_subscript_data_call(j)
        stored_sub ==
            /\ result.is_subscription
            /\ result.subscription_fields_ok
            /\ insert_ok(encrypt_data_row(subscript_row))
        all == (upload.done \cup {j}) = DOMAIN upload.items
    IN
    /\ upload.pc = "files"
    /\ j \in DOMAIN upload.items \ upload.done
    /\ IF ~result.fields_ok
       THEN upload' = [upload EXCEPT !.done = @ \cup {j},
                                     !.failures = @ \cup {j},
                                     !.pc = IF all THEN "returned" ELSE @]
       ELSE upload' = [upload EXCEPT
                          !.done = @ \cup {j},
                          !.stored_receipts = @ \cup {j},
                          !.stored_subscriptions =
                              IF stored_sub THEN @ \cup {j} ELSE @,
                          !.pc = IF all THEN "returned" ELSE @]
    /\ UnchangedUpload

\* -------------------------------------------------------- get_subscriptions
MaxDay == 12
Days == 0..MaxDay

UpcomingDays == 7

\* v.isoformat() of process_record and strptime(text, "%Y-%m-%d").date():
\* the text of a date is the date under a tag, None stays None
isoformat(v) == IF v = NoDate THEN NoDate ELSE <<"Y-m-d">> \o v
strptime(text) == Tail(text)
isinstance_str(v) == Len(v) = 2

\* process_record(r, "subscription_records")
process_record(r) ==
    [decrypt_subscription(r) EXCEPT !.start_date = isoformat(r.start_date),
                                    !.end_date = isoformat(r.end_date)]

enrich_subscription_late(record, today) ==
    LET end_date == IF isinstance_str(record.end_date)
                    THEN strptime(record.end_date) ELSE record.end_date
        has_end == end_date # NoDate
        days_left == IF has_end THEN Max({end_date[1] - today, 0}) ELSE 0
        days_expired == IF has_end THEN Max({today - end_date[1], 0}) ELSE 0
        status_label ==
            IF has_end /\ end_date[1] <= today THEN "expired"
            ELSE IF has_end /\ end_date[1] <= today + UpcomingDays
                 THEN "upcoming"
                 ELSE "active"
    IN  [days_left |-> days_left, days_expired |-> days_expired,
         status_label |-> status_label] @@ record

\* _enrich_subscription(record, today)
enrich_subscription(record, today) ==
    LET end_date == IF isinstance_str(record.end_date)
                    THEN strptime(record.end_date) ELSE record.end_date
        has_end == end_date # NoDate
        days_left == IF has_end THEN Max({end_date[1] - today, 0}) ELSE 0
        days_expired == IF has_end THEN Max({today - end_date[1], 0}) ELSE 0
        status_label ==
            IF has_end /\ end_date[1] < today THEN "expired"
            ELSE IF has_end /\ end_date[1] <= today + UpcomingDays
                 THEN "upcoming"
                 ELSE "active"
    IN  [days_left |-> days_left, days_expired |-> days_expired,
         status_label |-> status_label] @@ record

\* the rows with rn = 1 of row_number() over (partition by chain_key_bidx
\* order by ind desc), among the rows of the user
chain_representatives(rows, user_id) ==
    LET mine == { r \in rows : r.user_id = user_id } IN
    { r \in mine :
        \A q \in mine : q.chain_key_bidx = r.chain_key_bidx => q.ind <= r.ind }

\* the "data" of the response; status_filter "" stands for no filter, and a
\* filter is given in lower case
get_subscriptions(rows, user_id, status_filter, today) ==
    LET enriched_result ==
            { enrich_subscription(process_record(r), today) :
                r \in chain_representatives(rows, user_id) }
    IN  IF status_filter # "" /\ status_filter # "string"
        THEN { r \in enriched_result : r.status_label = status_filter }
        ELSE enriched_result

UnchangedData ==
    UNCHANGED <<canonical_entities, subscription_records, next_ind, redis,
                cache_writer, call, upd, nupdates, ndeletes, nfaults,
                inval_tasks, scan, stale, stats, last_delete, quota, req,
                upload>>

\* a get_subscriptions request; rows is the history of what the table held
GetSubscriptions(u, status_filter, today) ==
    /\ view' = [user_id |-> u, status_filter |-> status_filter,
                today |-> today,
                rows |-> { r \in subscription_records : r.user_id = u },
                data |-> get_subscriptions(subscription_records, u,
                                           status_filter, today)]
    /\ UnchangedData

\* ---------------------------------------------------- get_subscription_stats
\* active_subscriptions of lines 239-274: every record of the user is read,
\* enriched and kept when its status is active or upcoming
active_subscriptions(rows, user_id, today) ==
    LET records == { r \in rows : r.user_id = user_id }
        enriched_subscriptions ==
            { enrich_subscription(process_record(r), today) : r \in records }
    IN  { s \in enriched_subscriptions :
            s.status_label \in {"active", "upcoming"} }

\* a get_subscription_stats request: counted is the list handed to
\* _calculate_subscription_stats, total_active its length (line 587)
GetSubscriptionStats(u, today) ==
    LET counted == active_subscriptions(subscription_records, u, today) IN
    /\ stats' = [user_id |-> u, today |-> today,
                 rows |-> { r \in subscription_records : r.user_id = u },
                 counted |-> counted,
                 total_active |-> Cardinality(counted)]
    /\ UNCHANGED <<canonical_entities, subscription_records, next_ind, redis,
                   cache_writer, call, upd, nupdates, ndeletes, nfaults,
                   inval_tasks, scan, stale, view, last_delete, quota, req,
                   upload>>

\* _enrich_subscription applied to one stored record
EnrichSubscription(r, today) ==
    /\ view' = [user_id |-> r.user_id, status_filter |-> "", today |-> today,
                rows |-> {r},
                data |-> {enrich_subscription(process_record(r), today)}]
    /\ UnchangedData

\* ------------------------------------------------------------ specification
Next ==
    \/ \E c \in Calls, u \in Users, f \in Facts : Start(c, u, f)
    \/ \E c \in Calls : CacheReadHit(c)
    \/ \E c \in Calls : CacheReadMiss(c)
    \/ \E c \in Calls : CacheReadError(c)
    \/ \E c \in Calls : ExactSelect(c)
    \/ \E c \in Calls : ExactUpdate(c)
    \/ \E c \in Calls : FuzzySelect(c)
    \/ \E c \in Calls : FuzzyUpdate(c)
    \/ \E c \in Calls : Create(c)
    \/ \E c \in Calls : CacheWrite(c)
    \/ \E c \in Calls : InsertRecord(c, NoDate, NoDate)
    \/ \E r \in subscription_records, u \in Users, e \in Edits :
          UpdPhase1(r.ind, u, e)
    \/ UpdPhase2
    \/ UpdPhase3
    \/ \E t \in inval_tasks : Invalidate(t)
    \/ \E u \in Users, r \in subscription_records :
          DeleteSubscriptions(u, {r.ind})

Spec == Init /\ [][Next]_vars

\* ------------------------------------------------------------------ claims
Resolved(c) == call[c].pc \in {"returned", "stored"}

Quiet == \A c \in Calls : call[c].pc \in Finished \cup {"idle"}

RECURSIVE SumMatchCount(_)
SumMatchCount(rows) ==
    IF rows = <<>> THEN 0
    ELSE rows[Len(rows)].match_count + SumMatchCount(SubSeq(rows, 1, Len(rows) - 1))

RowsWithKey(k) ==
    { i \in DOMAIN canonical_entities : canonical_entities[i].normalized_key = k }

\* C1: when every call of the model resolves the same brand-new subscription
\* of one user, all of them overlapping (none started after another had
\* finished), none finding a cache entry and all returning, the registry
\* holds exactly one row with that
\* normalized_key and its match_count is the number of calls.
C1_ConcurrentCreateOnce ==
    LET u == call[1].user_id
        k == call[1].normalized_key
    IN  ( /\ nupdates = 0
          /\ \A c \in Calls : /\ Resolved(c)
                              /\ call[c].path # "cache"
                              /\ call[c].user_id = u
                              /\ call[c].normalized_key = k
                              /\ call[c].after = {} )
        => /\ Cardinality(RowsWithKey(k)) = 1
           /\ \A i \in RowsWithKey(k) :
                 canonical_entities[i].match_count = MaxCalls

\* C2: no two canonical_entities rows have the same normalized_key.
C2_UniqueNormalizedKey ==
    \A i, j \in DOMAIN canonical_entities :
        i # j => canonical_entities[i].normalized_key #
                 canonical_entities[j].normalized_key

\* C3: sequentially, the first resolve creates the entity and a second resolve
\* of a fact with the same key returns the same canonical_id by the exact
\* path, adds no row and leaves match_count = 2.
C3_SecondResolveExact ==
    ( /\ nupdates = 0
      /\ nfaults = 0
      /\ Resolved(1) /\ call[1].path = "create"
      /\ Resolved(2) /\ 1 \in call[2].after
      /\ call[2].user_id = call[1].user_id
      /\ call[2].normalized_key = call[1].normalized_key
      /\ \A c \in Calls \ {1, 2} : call[c].pc = "idle" )
    => /\ call[2].result.canonical_id = call[1].result.canonical_id
       /\ Len(canonical_entities) = 1
       /\ canonical_entities[1].match_count = 2

\* C4: a resolve that returns an existing entity (exact, fuzzy or from the
\* cache) returns that entity's canonical values, not the raw ones.
C4_ReturnsCanonicalValues ==
    \A c \in Calls :
        (Resolved(c) /\ call[c].path \in {"exact", "fuzzy", "cache"})
        => FieldsOf(call[c].result) = call[c].canon_seen

\* C5: a resolve served from the cache returns the canonical_id that the call
\* which stored the entry returned, for the same user and key, and makes no
\* registry lookup or write.
C5_CacheRoundTrip ==
    \A c \in Calls :
        call[c].path = "cache"
        => /\ call[c].lookups = 0
           /\ ~call[c].mutated
           /\ call[c].hit_writer \in Calls \ {c}
           /\ call[call[c].hit_writer].cache_written
           /\ call[call[c].hit_writer].user_id = call[c].user_id
           /\ call[call[c].hit_writer].normalized_key = call[c].normalized_key
           /\ call[c].result.canonical_id # 0
           /\ call[c].result.canonical_id =
                  call[call[c].hit_writer].result.canonical_id

C5_Witness ==
    \E c \in Calls : call[c].path = "cache" /\ Resolved(c)

\* C6: a cache error never fails the call.  After a failed cache read the call
\* goes on as on a miss (it looks the registry up and matches or creates); a
\* failed cache write still returns the resolved identity.
C6_CacheErrorsSwallowed ==
    \A c \in Calls :
        /\ call[c].read_err =>
              /\ call[c].pc # "cache_read"
              /\ call[c].path # "cache"
              /\ call[c].pc = "raised" =>
                    (call[c].select_err \/ call[c].fuzzy_err \/ call[c].reg_write_err)
              /\ Resolved(c) =>
                    (call[c].mutated /\ call[c].lookups >= 1
                       /\ call[c].path \in {"exact", "fuzzy", "create"})
        /\ call[c].cache_write_err =>
              /\ Resolved(c)
              /\ call[c].mutated
              /\ call[c].result.canonical_id \in DOMAIN canonical_entities

C6_Witness ==
    \E c \in Calls :
        /\ Resolved(c)
        /\ \/ call[c].read_err /\ call[c].path = "create"
           \/ call[c].cache_write_err

\* C7: the cache changes no outcome: as with an unreachable cache, every
\* resolve that returned has matched or created, so once no call is running
\* the match_counts add up to the number of calls that returned.
C7_CacheTransparent ==
    Quiet => SumMatchCount(canonical_entities) =
             Cardinality({ c \in Calls : Resolved(c) })

\* C8: when the registry write of a call fails, the call raises: it returns
\* no identity and writes no cache entry.
C8_RegistryFailurePropagates ==
    \A c \in Calls :
        call[c].reg_write_err
        => /\ call[c].pc = "raised"
           /\ call[c].result = NoResult
           /\ ~call[c].cache_written
           /\ ~call[c].mutated
           /\ \A k \in DOMAIN cache_writer : cache_writer[k] # c

C8_Witness ==
    \E c \in Calls : call[c].reg_write_err /\ call[c].path = "create"

\* C9: a failed similarity query does not abort the call.
C9_FuzzyFailureFallsThrough ==
    \A c \in Calls : call[c].fuzzy_err => call[c].pc # "raised"

\* C10: the threshold is exclusive.  A call matches by similarity only with a
\* score above 0.85, and a call that found no match saw no candidate above
\* 0.85 (a best score of exactly 0.85 creates a new entity).
C10_ThresholdExclusive ==
    \A c \in Calls :
        LET matched == call[c].pc = "fuzzy_update" \/ call[c].path = "fuzzy"
            passed  == call[c].pc = "create" \/ call[c].path = "create"
        IN  /\ matched => (call[c].score > 85 /\ call[c].score = call[c].best_sim)
            /\ passed => call[c].best_sim <= 85

C10_Witness ==
    \E c \in Calls :
        /\ Resolved(c) /\ call[c].path = "create" /\ call[c].best_sim = 85
        /\ Len(canonical_entities) = 2

\* ------------------------------------------------- resolve calls on their own
\* normalize_subscription_fields called directly by one user, without the
\* record operations around it.
ResolveNext ==
    \/ \E c \in Calls, f \in Facts : Start(c, "u1", f)
    \/ \E c \in Calls : CacheReadHit(c)
    \/ \E c \in Calls : CacheReadMiss(c)
    \/ \E c \in Calls : CacheReadError(c)
    \/ \E c \in Calls : ExactSelect(c)
    \/ \E c \in Calls : ExactUpdate(c)
    \/ \E c \in Calls : FuzzySelect(c)
    \/ \E c \in Calls : FuzzyUpdate(c)
    \/ \E c \in Calls : Create(c)
    \/ \E c \in Calls : CacheWrite(c)

SpecResolve == Init /\ [][ResolveNext]_vars

\* ------------------------------------------- subscription chains of one user
\* insert_subscription with dated periods, and get_subscriptions.  F3 resolves
\* to the entity of F1 by a fuzzy match, so both facts can land in one chain.
ChainFacts == {F1, F3}

\* billing periods <<start_date, end_date>>: the second starts 3 days after
\* the first ends, the third 4 days after
Periods == { <<date(1), date(2)>>, <<date(5), date(6)>>, <<date(6), date(7)>> }

ChainsNext ==
    \/ \E c \in Calls, f \in ChainFacts : Start(c, "u1", f)
    \/ \E c \in Calls : CacheReadHit(c)
    \/ \E c \in Calls : CacheReadMiss(c)
    \/ \E c \in Calls : CacheReadError(c)
    \/ \E c \in Calls : ExactSelect(c)
    \/ \E c \in Calls : ExactUpdate(c)
    \/ \E c \in Calls : FuzzySelect(c)
    \/ \E c \in Calls : FuzzyUpdate(c)
    \/ \E c \in Calls : Create(c)
    \/ \E c \in Calls : CacheWrite(c)
    \/ \E c \in Calls, p \in Periods : InsertRecord(c, p[1], p[2])
    \/ \E f \in {"", "expired"}, today \in {0, MaxDay} :
          GetSubscriptions("u1", f, today)

SpecChains == Init /\ [][ChainsNext]_vars

\* ------------------------------------------------- the status of one record
\* _enrich_subscription on a stored record with any end_date, on any day
StatusRecords ==
    { subscription_row(1, "u1", exact_result(F1, 1), date(0), e) :
        e \in {NoDate} \cup { date(d) : d \in Days } }

StatusNext == \E r \in StatusRecords, today \in Days : EnrichSubscription(r, today)

SpecStatus == Init /\ [][StatusNext]_vars

\* ------------------------------------------------------ cache invalidation
\* invalidate_canonical_cache on a cache that earlier resolves of two users
\* filled: four entities exist, and any of them may have a cache entry (a
\* failed cache write leaves an entity without one).
CachePool ==
    << [user_id |-> "u1", raw_data |-> F1], [user_id |-> "u1", raw_data |-> F4],
       [user_id |-> "u2", raw_data |-> F1], [user_id |-> "u2", raw_data |-> F4] >>

PoolKey(i) == cache_key_of(CachePool[i].user_id, KeyOf(CachePool[i].raw_data))

CacheOf(D) ==
    LET id(k) == CHOOSE i \in D : PoolKey(i) = k IN
    [k \in { PoolKey(i) : i \in D } |->
        json_dumps(exact_cache_data(CachePool[id(k)].raw_data, id(k)))]

InitCache ==
    /\ canonical_entities =
         [i \in DOMAIN CachePool |->
            new_canonical_row(CachePool[i].user_id, CachePool[i].raw_data,
                              KeyOf(CachePool[i].raw_data))]
    /\ subscription_records = {}
    /\ next_ind = 1
    /\ redis \in { CacheOf(D) : D \in SUBSET DOMAIN CachePool }
    /\ cache_writer = [k \in DOMAIN redis |-> 0]
    /\ call = [c \in Calls |-> IdleCall]
    /\ upd = IdleUpd
    /\ nupdates = 0
    /\ ndeletes = 0
    /\ nfaults = 0
    /\ inval_tasks \in
         {{}} \cup { {[user_id |-> CachePool[i].user_id,
                       normalized_key |-> KeyOf(CachePool[i].raw_data)]} :
                     i \in DOMAIN CachePool }
    /\ scan = IdleScan
    /\ stale = {}
    /\ view = NoResult
    /\ stats = NoResult
    /\ last_delete = NoResult
    /\ quota = NoResult
    /\ req = IdleRequests
    /\ upload = IdleBatch

CacheNext ==
    \/ \E t \in inval_tasks : Invalidate(t)
    \/ \E u \in Users : InvalidateAllStart(u)
    \/ \E batch \in SUBSET scan.todo : ScanStep(batch)

SpecCache == InitCache /\ [][CacheNext]_vars

\* --------------------------------------------------- the normalized key
\* generate_normalized_key on names with parentheses, currencies in either
\* case with surrounding blanks, and amounts with a third decimal
MaxText == 5

Texts == UNION { [1..n -> {"(", ")", "a", "B"}] : n \in 0..MaxText }

KeyInputs ==
    { [buyer_name |-> b, seller_name |-> s, plan_name |-> <<"E", "2">>,
       currency |-> c, amount |-> a] :
        b \in Texts, s \in { <<"W">>, <<" ", "w", ".">> },
        c \in { <<"u", "s", "d">>, <<" ", "U", "S", "D", " ">> },
        a \in {1200, 1204} }

KeyNext == \E f \in KeyInputs : Start(1, "u1", f)

SpecKey == Init /\ [][KeyNext]_vars

\* ----------------------------------------------------------- claims C11-C20

\* the identity of a subscription: user, buyer, seller, plan, currency, amount
Identity(r) ==
    <<r.user_id, r.buyer_name, decrypt_value(r.seller_name),
      decrypt_value(r.plan_name), r.currency, r.amount>>

Unfiltered == view # NoResult /\ view.status_filter = ""

\* the representatives the response gives for the identity of record r
RepresentativesOf(r) ==
    { d \in view.data : <<d.user_id, d.buyer_name, d.seller_name, d.plan_name,
                          d.currency, d.amount>> = Identity(r) }

\* C11: two records of one user with the same identity that are the only
\* ones of that identity are reported as one chain when the later one starts
\* at most 3 days after the earlier one ends, and as two chains, each with
\* its own representative, when it starts 4 or more days after.
C11_ChainGap ==
    Unfiltered =>
        \A a, b \in view.rows :
            /\ a.ind # b.ind
            /\ Identity(a) = Identity(b)
            /\ \A o \in view.rows : Identity(o) = Identity(a) => o \in {a, b}
            /\ a.end_date # NoDate /\ b.start_date # NoDate
            /\ a.start_date[1] <= b.start_date[1]
            => LET gap == b.start_date[1] - a.end_date[1] IN
               /\ gap <= 3 => Cardinality(RepresentativesOf(a)) = 1
               /\ gap >= 4 => Cardinality(RepresentativesOf(a)) = 2

\* C12: the representative get_subscriptions returns for a chain is the
\* member of the chain with the latest start_date.
C12_LatestStartDate ==
    Unfiltered =>
        \A d \in view.data : \A r \in view.rows :
            /\ r.chain_key_bidx = d.chain_key_bidx
            /\ r.start_date # NoDate
            => /\ d.start_date # NoDate
               /\ r.start_date[1] <= strptime(d.start_date)[1]

C14_InvalidateAll ==
    [][ scan' # scan =>
          /\ DOMAIN redis' \subseteq DOMAIN redis
          /\ \A k \in DOMAIN redis :
                k[2] # scan'.user_id =>
                    k \in DOMAIN redis' /\ redis'[k] = redis[k]
          /\ scan'.pc = "done" =>
                \A k \in DOMAIN scan'.snapshot :
                    k[2] = scan'.user_id => k \notin DOMAIN redis' ]_vars

\* a completed call removed two entries of its user and another user's stays
C14_Witness ==
    /\ scan.pc = "done"
    /\ Cardinality({ k \in DOMAIN scan.snapshot : k[2] = scan.user_id }) = 2
    /\ \E k \in DOMAIN redis : k[2] # scan.user_id
    /\ \A k \in DOMAIN redis : k[2] # scan.user_id

\* C15: invalidate_canonical_cache(user_id, normalized_key) deletes the entry
\* canonical:{user_id}:{normalized_key} and leaves every other entry as it
\* was.
C15_InvalidateOne ==
    [][ (inval_tasks' # inval_tasks /\ inval_tasks' \subseteq inval_tasks) =>
          \E t \in inval_tasks \ inval_tasks' :
              LET ck == cache_key_of(t.user_id, t.normalized_key) IN
              /\ DOMAIN redis' \subseteq DOMAIN redis
              /\ \A k \in DOMAIN redis \ {ck} :
                    k \in DOMAIN redis' /\ redis'[k] = redis[k]
              /\ nfaults' = nfaults => ck \notin DOMAIN redis' ]_vars

\* the entry a call stored has been deleted by the invalidation an edit
\* scheduled, and another entry of the same user is still cached
C15_Witness ==
    /\ nupdates > 0 /\ inval_tasks = {} /\ nfaults = 0
    /\ \E c \in Calls :
          /\ call[c].cache_written
          /\ cache_key_of(call[c].user_id, call[c].normalized_key)
                \notin DOMAIN redis
          /\ \E k \in DOMAIN redis : k[2] = call[c].user_id

\* C16: after update_subscription changed the canonical values of an entity
\* and the invalidation it scheduled has run without error, no cache entry of
\* that user that resolved to the entity before the edit is still cached.
C16_NoStaleEntryAfterEdit ==
    (upd.pc = "idle" /\ inval_tasks = {} /\ nfaults = 0) =>
        \A e \in stale :
            ~ (e[1] \in DOMAIN redis /\ cache_writer[e[1]] = e[2])

\* C17: delete_subscriptions leaves the canonical_entities table as it was:
\* no row is removed or deactivated and no match_count changes, also when the
\* last record that references an entity is deleted.
C17_DeleteKeepsEntities ==
    [][ ndeletes' # ndeletes => canonical_entities' = canonical_entities ]_vars

\* the only record of an entity has been deleted and the entity is still
\* there, active
C17_Witness ==
    /\ ndeletes > 0
    /\ \E c \in Calls :
          LET id == call[c].result.canonical_id IN
          /\ call[c].pc = "stored"
          /\ id \in DOMAIN canonical_entities
          /\ canonical_entities[id].is_active
          /\ \A r \in subscription_records : r.canonical_id # id

\* the characters of s outside every pair of parentheses; depth counts the
\* parentheses open so far
RECURSIVE OutsideParens(_, _)
OutsideParens(s, depth) ==
    IF s = <<>> THEN <<>>
    ELSE IF Head(s) = "(" THEN OutsideParens(Tail(s), depth + 1)
    ELSE IF Head(s) = ")" THEN OutsideParens(Tail(s), Max({depth - 1, 0}))
    ELSE IF depth = 0 THEN <<Head(s)>> \o OutsideParens(Tail(s), depth)
    ELSE OutsideParens(Tail(s), depth)

RECURSIVE ParenDepth(_, _)
ParenDepth(s, depth) ==
    IF s = <<>> THEN depth
    ELSE IF Head(s) = "(" THEN ParenDepth(Tail(s), depth + 1)
    ELSE IF Head(s) = ")"
         THEN IF depth = 0 THEN -1 ELSE ParenDepth(Tail(s), depth - 1)
    ELSE ParenDepth(Tail(s), depth)

\* every parenthesis of s has its partner
Balanced(s) == ParenDepth(s, 0) = 0

\* a name without what the rules strip: parenthesized content, letter case,
\* whitespace and punctuation
EssentialName(s) == SelectSeq(Lower(OutsideParens(s, 0)), IsAlnumLower)

\* C18: an input and the same input without what the rules strip (names
\* without parenthesized content, case, whitespace and punctuation, the
\* currency upper-cased without surrounding whitespace, the amount rounded to
\* two decimals) have the same normalized key.
C18_KeyInsensitive ==
    \A c \in Calls :
        LET f == call[c].raw_data IN
        (/\ call[c].pc # "idle"
         /\ Balanced(f.buyer_name) /\ Balanced(f.seller_name)
         /\ Balanced(f.plan_name))
        => call[c].normalized_key =
             generate_normalized_key(
                 EssentialName(f.buyer_name), EssentialName(f.seller_name),
                 EssentialName(f.plan_name), Upper(Strip(f.currency)),
                 RoundCents(f.amount) * 10)

\* C19: the registry write of a resolve that found a fuzzy match lands on the
\* matched row: the table gets no new row, the match_count of the matched row
\* grows by exactly 1, and every other row stays as it was.
C19_FuzzyWriteOnMatchedRow ==
    [][ \A c \in Calls :
          (call[c].pc = "fuzzy_update" /\ call'[c].mutated) =>
              LET id == call[c].canonical IN
              /\ Len(canonical_entities') = Len(canonical_entities)
              /\ canonical_entities'[id].match_count =
                     canonical_entities[id].match_count + 1
              /\ \A i \in DOMAIN canonical_entities \ {id} :
                     canonical_entities'[i] = canonical_entities[i] ]_vars

\* a resolve returned by the fuzzy path and the table holds the one matched
\* row, counted twice
C19_Witness ==
    \E c \in Calls :
        /\ Resolved(c) /\ call[c].path = "fuzzy" /\ call[c].mutated
        /\ Len(canonical_entities) = 1
        /\ canonical_entities[1].match_count = 2

\* what defines an entity: every column but match_count
Definition(row) == [row EXCEPT !.match_count = 0]

\* C20: the registry write of a resolve that matched an entity, exactly or
\* by similarity, changes no canonical value and no normalized_key of any
\* row; only match_count changes.
C20_MatchNeverRedefines ==
    [][ (\E c \in Calls :
            /\ call[c].pc \in {"exact_update", "fuzzy_update"}
            /\ call'[c].pc # call[c].pc) =>
          /\ DOMAIN canonical_entities' = DOMAIN canonical_entities
          /\ \A i \in DOMAIN canonical_entities :
                Definition(canonical_entities'[i]) =
                    Definition(canonical_entities[i]) ]_vars

\* a resolve matched an entity exactly with raw values that are not the
\* entity's canonical values
C20_Witness ==
    \E c \in Calls :
        /\ Resolved(c) /\ call[c].path = "exact" /\ call[c].mutated
        /\ FieldsOf(call[c].raw_data) #
               CanonicalValues(canonical_entities[call[c].canonical])

\* ----------------------------------------------------------- claims C21-C30

\* ---- the fuzzy match over a registry holding inactive rows, rows of both
\* users and rows of every similarity to the incoming key
MaxRows == 2

RegistryFacts == {F1, F3, F4, F5}

\* a row as a resolve call created it, after further matches; is_active is
\* cleared outside these modules
RegistryRows ==
    { [new_canonical_row(u, f, KeyOf(f)) EXCEPT !.is_active = a,
                                                !.match_count = m] :
        u \in Users, f \in RegistryFacts, a \in BOOLEAN, m \in 1..2 }

Registries ==
    UNION { [1..n -> RegistryRows] : n \in 0..MaxRows }

InitFuzzy ==
    /\ canonical_entities \in Registries
    /\ subscription_records = {}
    /\ next_ind = 1
    /\ redis = <<>>
    /\ cache_writer = <<>>
    /\ call = [c \in Calls |-> IdleCall]
    /\ upd = IdleUpd
    /\ nupdates = 0
    /\ ndeletes = 0
    /\ nfaults = 0
    /\ inval_tasks = {}
    /\ scan = IdleScan
    /\ stale = {}
    /\ view = NoResult
    /\ stats = NoResult
    /\ last_delete = NoResult
    /\ quota = NoResult
    /\ req = IdleRequests
    /\ upload = IdleBatch

FuzzyNext ==
    \/ Start(1, "u1", F3)
    \/ CacheReadMiss(1)
    \/ CacheReadError(1)
    \/ ExactSelect(1)
    \/ ExactUpdate(1)
    \/ FuzzySelect(1)
    \/ FuzzyUpdate(1)
    \/ Create(1)
    \/ CacheWrite(1)

SpecFuzzy == InitFuzzy /\ [][FuzzyNext]_vars

\* the rows the fuzzy match of call c may return: of the caller, active and
\* above the threshold
Eligible(c) ==
    { j \in DOMAIN canonical_entities :
        /\ canonical_entities[j].user_id = call[c].user_id
        /\ canonical_entities[j].is_active = TRUE
        /\ similarity(canonical_entities[j].normalized_key,
                      call[c].normalized_key) > FUZZY_THRESHOLD }

\* row i comes before row j in the order of the fuzzy match of call c
Precedes(c, i, j) ==
    LET sim(x) == similarity(canonical_entities[x].normalized_key,
                             call[c].normalized_key)
    IN  \/ sim(i) > sim(j)
        \/ /\ sim(i) = sim(j)
           /\ canonical_entities[i].match_count >=
                  canonical_entities[j].match_count

\* C21: the fuzzy match returns one row or none; a returned row belongs to
\* the caller, is active, scores above the threshold, and no other such row
\* has a higher similarity or, at the same similarity, a higher match_count;
\* it returns none only when no such row exists
C21_FuzzyBest ==
    [][\A c \in Calls :
          call[c].pc = "fuzzy_select" =>
            /\ call'[c].pc = "fuzzy_update" =>
                 /\ call'[c].canonical \in Eligible(c)
                 /\ \A j \in Eligible(c) : Precedes(c, call'[c].canonical, j)
                 /\ call'[c].similar = canonical_entities[call'[c].canonical]
            /\ call'[c].pc = "create" => Eligible(c) = {}]_vars

\* a match was returned while the registry held an eligible row with a lower
\* similarity and a higher match_count
C21_Witness ==
    \E c \in Calls, j \in DOMAIN canonical_entities :
        /\ call[c].pc = "fuzzy_update"
        /\ j # call[c].canonical
        /\ canonical_entities[j].user_id = call[c].user_id
        /\ canonical_entities[j].is_active
        /\ similarity(canonical_entities[j].normalized_key,
                      call[c].normalized_key) > FUZZY_THRESHOLD
        /\ canonical_entities[j].match_count >
               canonical_entities[call[c].canonical].match_count

\* C22: in every resolve call the steps run in the order cache read, fuzzy
\* match, registry write, cache write: the cache is written only after the
\* call's registry write, the registry is written only after the call's
\* fuzzy match, and a call that is about to run its fuzzy match has not
\* read the registry since its cache read
C22_StepOrder ==
    \A c \in Calls :
        /\ call[c].cache_written => call[c].mutated
        /\ call[c].mutated => call[c].path \in {"fuzzy", "create"}
        /\ call[c].pc = "fuzzy_select" => call[c].lookups = 0

\* the text behind every layer of encryption
RECURSIVE Plain(_)
Plain(v) == IF v # <<>> /\ Head(v) = "Z" THEN Plain(Tail(v)) ELSE v

\* C23: the normalized_key of every canonical_entities row is the key of the
\* row's own plaintext buyer, seller, plan, currency and amount, also after
\* an edit of some of the five fields
C23_KeyOfOwnFields ==
    \A i \in DOMAIN canonical_entities :
        LET row == canonical_entities[i] IN
        row.normalized_key =
            generate_normalized_key(Plain(row.canonical_buyer_name),
                                    Plain(row.canonical_seller_name),
                                    Plain(row.canonical_plan_name),
                                    row.canonical_currency,
                                    row.canonical_amount)

\* ---- insert_subscription of one user, over facts that differ in case and
\* punctuation (F1, F2) and a fact similar to them (F3); no record is edited
InsertFacts == {F1, F2, F3}

InsertNext ==
    \/ \E c \in Calls, f \in InsertFacts : Start(c, "u1", f)
    \/ \E c \in Calls : CacheReadHit(c)
    \/ \E c \in Calls : CacheReadMiss(c)
    \/ \E c \in Calls : CacheReadError(c)
    \/ \E c \in Calls : ExactSelect(c)
    \/ \E c \in Calls : ExactUpdate(c)
    \/ \E c \in Calls : FuzzySelect(c)
    \/ \E c \in Calls : FuzzyUpdate(c)
    \/ \E c \in Calls : Create(c)
    \/ \E c \in Calls : CacheWrite(c)
    \/ \E c \in Calls : InsertRecord(c, NoDate, NoDate)

SpecInsert == Init /\ [][InsertNext]_vars

\* C24: two subscription records of one user with the same canonical_id
\* carry the same chain_key_bidx
C24_OneChainPerEntity ==
    \A r \in subscription_records, q \in subscription_records :
        (r.user_id = q.user_id /\ r.canonical_id = q.canonical_id)
            => r.chain_key_bidx = q.chain_key_bidx

\* ---- dated inserts of one user with get_subscriptions and
\* get_subscription_stats on the same day
StatsToday == 0

StatsNext ==
    \/ \E c \in Calls : Start(c, "u1", F1)
    \/ \E c \in Calls : CacheReadHit(c)
    \/ \E c \in Calls : CacheReadMiss(c)
    \/ \E c \in Calls : CacheReadError(c)
    \/ \E c \in Calls : ExactSelect(c)
    \/ \E c \in Calls : ExactUpdate(c)
    \/ \E c \in Calls : FuzzySelect(c)
    \/ \E c \in Calls : Create(c)
    \/ \E c \in Calls : CacheWrite(c)
    \/ \E c \in Calls, p \in Periods : InsertRecord(c, p[1], p[2])
    \/ GetSubscriptions("u1", "", StatsToday)
    \/ GetSubscriptionStats("u1", StatsToday)

SpecStats == Init /\ [][StatsNext]_vars

\* record d of a response is the latest record of its chain among rows
Representative(d, rows) ==
    \A q \in rows : q.chain_key_bidx = d.chain_key_bidx => q.ind <= d.ind

\* C25: every record get_subscriptions lists with a status, and every record
\* get_subscription_stats counts as active or upcoming, is the latest record
\* of its chain
C25_OnlyRepresentatives ==
    /\ view # NoResult =>
          \A d \in view.data : Representative(d, view.rows)
    /\ stats # NoResult =>
          \A d \in stats.counted : Representative(d, stats.rows)

\* C26: invalidate_canonical_cache never raises: a round of the scan whose
\* SCAN or DELETE fails ends the call normally and deletes nothing more, a
\* failed keyed invalidation ends normally too, and the scan ends as soon as
\* the cursor is 0
C26_InvalidateNeverRaises ==
    [][ /\ scan'.pc # "raised"
        /\ (scan.pc = "scanning" /\ scan' # scan) =>
              /\ nfaults' # nfaults => scan'.pc = "failed" /\ redis' = redis
              /\ (nfaults' = nfaults /\ scan'.todo = {}) => scan'.pc = "done"
              /\ (nfaults' = nfaults /\ scan'.todo # {}) => scan'.pc = "scanning"
        /\ (inval_tasks' # inval_tasks /\ nfaults' # nfaults) =>
              /\ inval_tasks' \subseteq inval_tasks
              /\ redis' = redis ]_vars

\* a scan failed midway: one entry of its user is deleted, another is left
C26_Witness ==
    /\ scan.pc = "failed"
    /\ \E k \in DOMAIN scan.snapshot :
          k[2] = scan.user_id /\ k \notin DOMAIN redis
    /\ \E k \in DOMAIN redis : k[2] = scan.user_id

\* ---- ingestion of a batch of files by the web upload and by the email path
MaxBatch == 3

\* extraction results: the receipt fields parse or not, the file is a
\* subscription or not, and the subscription fields parse or not
Items ==
    { [fields_ok |-> r, is_subscription |-> s, subscription_fields_ok |-> f] :
        r \in BOOLEAN, s \in BOOLEAN, f \in BOOLEAN }

Batches == UNION { [1..n -> Items] : n \in 1..MaxBatch }

BatchNext ==
    \/ \E path \in {"web", "email"}, items \in Batches : UploadStart(path, items)
    \/ WebBuild
    \/ WebInsert
    \/ \E j \in 1..MaxBatch : ProcessSingleFile(j)

SpecBatch == Init /\ [][BatchNext]_vars

\* item i of the ingestion has nothing that fails: its receipt fields parse
\* and, if it is a subscription, its subscription fields parse
Sound(i) ==
    /\ upload.items[i].fields_ok
    /\ upload.items[i].is_subscription => upload.items[i].subscription_fields_ok

\* C27: when an ingestion in which some item failed has ended, every other
\* item of the batch that does not itself fail has its receipt stored and,
\* if it is a subscription, its subscription record stored
C27_SiblingsStored ==
    (/\ upload.pc \in {"returned", "raised"}
     /\ \E k \in DOMAIN upload.items : ~Sound(k)) =>
        \A i \in DOMAIN upload.items :
            Sound(i) =>
                /\ i \in upload.stored_receipts
                /\ upload.items[i].is_subscription =>
                      i \in upload.stored_subscriptions

\* ---- resolve calls of two users over the same facts
SharedFacts == {F1, F3}

UsersNext ==
    \/ \E c \in Calls, u \in Users, f \in SharedFacts : Start(c, u, f)
    \/ \E c \in Calls : CacheReadHit(c)
    \/ \E c \in Calls : CacheReadMiss(c)
    \/ \E c \in Calls : CacheReadError(c)
    \/ \E c \in Calls : ExactSelect(c)
    \/ \E c \in Calls : ExactUpdate(c)
    \/ \E c \in Calls : FuzzySelect(c)
    \/ \E c \in Calls : FuzzyUpdate(c)
    \/ \E c \in Calls : Create(c)
    \/ \E c \in Calls : CacheWrite(c)

SpecUsers == Init /\ [][UsersNext]_vars

\* the owner of the entity with this id, after the step
OwnerAfter(id) == canonical_entities'[id].user_id

\* C28: a resolve call of a user never picks, returns the canonical_id of or
\* increments the match_count of an entity of another user, and never
\* returns a cache entry that a call of another user stored
C28_UserIsolation ==
    [][ /\ \A c \in Calls :
              /\ (call'[c].pc \in {"exact_update", "fuzzy_update"}) =>
                    OwnerAfter(call'[c].canonical) = call'[c].user_id
              /\ call'[c].pc = "returned" =>
                    /\ call'[c].result.canonical_id \in DOMAIN canonical_entities'
                    /\ OwnerAfter(call'[c].result.canonical_id) = call'[c].user_id
              /\ call'[c].path = "cache" =>
                    call'[call'[c].hit_writer].user_id = call'[c].user_id
        /\ \A i \in DOMAIN canonical_entities :
              canonical_entities'[i].match_count #
                  canonical_entities[i].match_count =>
                  \E c \in Calls : /\ call'[c] # call[c]
                                    /\ call[c].user_id = OwnerAfter(i) ]_vars

\* two users resolved the same fact: each got an entity of their own, under
\* the same normalized key, and each has a cache entry of their own
C28_Witness ==
    \E c \in Calls, d \in Calls :
        /\ call[c].pc = "returned" /\ call[d].pc = "returned"
        /\ call[c].user_id # call[d].user_id
        /\ call[c].normalized_key = call[d].normalized_key
        /\ call[c].result.canonical_id # call[d].result.canonical_id
        /\ canonical_entities[call[c].result.canonical_id].normalized_key =
               canonical_entities[call[d].result.canonical_id].normalized_key
        /\ cache_key_of(call[c].user_id, call[c].normalized_key) \in DOMAIN redis
        /\ cache_key_of(call[d].user_id, call[d].normalized_key) \in DOMAIN redis

\* C29: delete_subscriptions(user_id, inds) removes only records of user_id:
\* after the call every record of another user that the table held is still
\* in the table, also when its ind is in inds
C29_DeleteOnlyOwnRecords ==
    [][ ndeletes' # ndeletes =>
          \A r \in subscription_records :
              r.user_id # last_delete'.user_id =>
                  r \in subscription_records' ]_vars

\* ---- upload requests of one user against the user's quota row
MaxSuccess == 2

QuotaRows ==
    { [used_month |-> u, month_limit |-> 5, raw_limit |-> w,
       last_reset_month |-> m] :
        u \in 0..1, w \in 0..MaxSuccess, m \in {"2026-10", current_month} }

InitQuota ==
    /\ canonical_entities = <<>>
    /\ subscription_records = {}
    /\ next_ind = 1
    /\ redis = <<>>
    /\ cache_writer = <<>>
    /\ call = [c \in Calls |-> IdleCall]
    /\ upd = IdleUpd
    /\ nupdates = 0
    /\ ndeletes = 0
    /\ nfaults = 0
    /\ inval_tasks = {}
    /\ scan = IdleScan
    /\ stale = {}
    /\ view = NoResult
    /\ stats = NoResult
    /\ last_delete = NoResult
    /\ quota \in QuotaRows
    /\ req = IdleRequests
    /\ upload = IdleBatch

QuotaNext ==
    \/ \E r \in Requests : CheckAndReset(r)
    \/ \E r \in Requests, n \in 0..MaxSuccess : UploadReturns(r, n)
    \/ \E r \in Requests : UploadRaises(r)
    \/ \E r \in Requests : IncrementUsage(r)

SpecQuota == InitQuota /\ [][QuotaNext]_vars

RECURSIVE SuccessCounts(_)
SuccessCounts(R) ==
    IF R = {} THEN 0
    ELSE LET r == CHOOSE x \in R : TRUE IN
         req[r].success_count + SuccessCounts(R \ {r})

\* every request has ended with its usage recorded, and each of them checked
\* the quota before any of them recorded its usage
Overlapped ==
    \A r \in Requests :
        /\ req[r].pc = "done"
        /\ req[r].success_count # 0
        /\ req[r].after = {}

====
